---- MODULE Spec2Model ----
(***************************************************************************)
(* A model of src/src/mlProject/utils/common.py: the utility helpers of    *)
(* the training pipeline (read_yaml, create_directories, save_json,        *)
(* load_json, get_size, save_object, save_bin, load_bin, evaluate_model).  *)
(*                                                                         *)
(* Every helper is one action.  The file system is a map from paths to     *)
(* nodes, file contents are token sequences (the text json.dump writes,    *)
(* the opcode stream pickle writes, the tokens of a YAML document), and    *)
(* Python values are records [t, v, items] of one shape.                   *)
(***************************************************************************)
EXTENDS Integers, Sequences, FiniteSets, TLC

VARIABLES
    fs,          \* the file system: path -> [kind, data]
    estimators,  \* the model instances of the registry: id -> [params, fitted]
    last         \* the last call of a helper: arguments, outcome, log output

vars == <<fs, estimators, last>>

----------------------------------------------------------------------------
(* Bounds of the model.                                                    *)

MaxDictLen == 1     \* entries of a dict handed to save_json
MaxDirs == 2        \* paths in a list handed to create_directories
MaxKB == 3          \* whole kilobytes of the files get_size measures
MaxModels == 2      \* entries of the model registry
MaxYamlKeys == 2    \* keys of a YAML mapping document

----------------------------------------------------------------------------
(* Python values.                                                          *)

Py(t, v, items) == [t |-> t, v |-> v, items |-> items]
PyNone == Py("None", "", <<>>)
PyInt(s) == Py("int", s, <<>>)
PyStr(s) == Py("str", s, <<>>)
PyList(items) == Py("list", "", items)
PyTuple(items) == Py("tuple", "", items)
PyPair(k, v) == Py("pair", "", <<k, v>>)
PyDict(pairs) == Py("dict", "", pairs)
PySet(items) == Py("set", "", items)
PyInstance(id) == Py("instance", id, <<>>)
PyLambda == Py("function", "<lambda>", <<>>)
NoValue == Py("no value", "", <<>>)

\* The class a value compares as: Box is a subclass of dict, BoxList of list.
EqClass(t) ==
    CASE t = "Box" -> "dict"
      [] t = "BoxList" -> "list"
      [] OTHER -> t

RECURSIVE PyEq(_, _)
RECURSIVE DictGet(_, _, _)
\* The position of key k among pairs[i..], 0 when absent.
DictGet(pairs, k, i) ==
    IF i > Len(pairs) THEN 0
    ELSE IF PyEq(pairs[i].items[1], k) THEN i
    ELSE DictGet(pairs, k, i + 1)

\* Python's ==.  Dicts compare as mappings, whatever their order; sequences
\* compare elementwise and only within their class; a plain instance only
\* equals itself.
PyEq(a, b) ==
    IF EqClass(a.t) # EqClass(b.t) THEN FALSE
    ELSE IF EqClass(a.t) = "dict" THEN
        /\ Len(a.items) = Len(b.items)
        /\ \A i \in 1..Len(a.items) :
              LET j == DictGet(b.items, a.items[i].items[1], 1)
              IN  j # 0 /\ PyEq(a.items[i].items[2], b.items[j].items[2])
    ELSE IF EqClass(a.t) \in {"list", "tuple", "pair"} THEN
        /\ Len(a.items) = Len(b.items)
        /\ \A i \in 1..Len(a.items) : PyEq(a.items[i], b.items[i])
    ELSE a.v = b.v

\* d[k] = v on the pairs of a dict: a key already present keeps its place.
DictSet(pairs, k, v) ==
    LET j == DictGet(pairs, k, 1)
    IN  IF j = 0 THEN Append(pairs, PyPair(k, v))
        ELSE [pairs EXCEPT ![j] = PyPair(k, v)]

DictKeys(d) == {d.items[i].items[1] : i \in 1..Len(d.items)}

----------------------------------------------------------------------------
(* File contents: sequences of tokens [k, v, n].  n is the byte count of a *)
(* "raw" token (a run of n opaque bytes); the other tokens are text.       *)

Tok(k, v) == [k |-> k, v |-> v, n |-> 0]
Raw(n) == [k |-> "raw", v |-> "", n |-> n]

TokBytes(t) ==
    CASE t.k = "raw" -> t.n
      [] t.k = "str" -> Len(t.v) + 2
      [] OTHER -> Len(t.v)

RECURSIVE Bytes(_)
Bytes(toks) == IF toks = <<>> THEN 0 ELSE TokBytes(Head(toks)) + Bytes(Tail(toks))

----------------------------------------------------------------------------
(* json.dump(data, f, indent=4): the chunks the encoder yields, in order,  *)
(* up to the value it cannot encode.                                       *)

RECURSIVE NewlineIndent(_)
NewlineIndent(level) == IF level = 0 THEN "\n" ELSE NewlineIndent(level - 1) \o "    "

Enc(toks, exc) == [toks |-> toks, exc |-> exc]

\* The key of a dict entry as the encoder writes it.
JsonKey(k) ==
    CASE k.t = "str" -> k.v
      [] k.t = "int" -> k.v
      [] k.t = "None" -> "null"
      [] OTHER -> ""

JsonKeyOk(k) == k.t \in {"str", "int", "None"}

RECURSIVE IterEncode(_, _)
RECURSIVE IterEncodeList(_, _, _, _)
RECURSIVE IterEncodeDict(_, _, _, _)

IterEncode(o, level) ==
    CASE o.t = "str" -> Enc(<<Tok("str", o.v)>>, "")
      [] o.t = "int" -> Enc(<<Tok("num", o.v)>>, "")
      [] o.t = "None" -> Enc(<<Tok("lit", "null")>>, "")
      [] o.t \in {"list", "tuple"} ->
            IF o.items = <<>> THEN Enc(<<Tok("p", "[]")>>, "")
            ELSE IterEncodeList(o.items, 1, level + 1,
                                <<Tok("p", "["), Tok("ws", NewlineIndent(level + 1))>>)
      [] o.t = "dict" ->
            IF o.items = <<>> THEN Enc(<<Tok("p", "{}")>>, "")
            ELSE IterEncodeDict(o.items, 1, level + 1,
                                <<Tok("p", "{"), Tok("ws", NewlineIndent(level + 1))>>)
      [] OTHER -> Enc(<<>>, "TypeError")

\* items[i..] of a list at indentation `level`, after the chunks `acc`.
IterEncodeList(items, i, level, acc) ==
    IF i > Len(items)
    THEN Enc(acc \o <<Tok("ws", NewlineIndent(level - 1)), Tok("p", "]")>>, "")
    ELSE LET sep == IF i = 1 THEN <<>>
                    ELSE <<Tok("p", ","), Tok("ws", NewlineIndent(level))>>
             e == IterEncode(items[i], level)
         IN  IF e.exc # "" THEN Enc(acc \o sep \o e.toks, e.exc)
             ELSE IterEncodeList(items, i + 1, level, acc \o sep \o e.toks)

\* pairs[i..] of a dict at indentation `level`, after the chunks `acc`.
IterEncodeDict(pairs, i, level, acc) ==
    IF i > Len(pairs)
    THEN Enc(acc \o <<Tok("ws", NewlineIndent(level - 1)), Tok("p", "}")>>, "")
    ELSE LET key == pairs[i].items[1]
             sep == IF i = 1 THEN <<>>
                    ELSE <<Tok("p", ","), Tok("ws", NewlineIndent(level))>>
             e == IterEncode(pairs[i].items[2], level)
             head == acc \o sep \o <<Tok("str", JsonKey(key)), Tok("p", ": ")>>
         IN  IF ~JsonKeyOk(key) THEN Enc(acc, "TypeError")
             ELSE IF e.exc # "" THEN Enc(head \o e.toks, e.exc)
             ELSE IterEncodeDict(pairs, i + 1, level, head \o e.toks)

JsonDump(data) == IterEncode(data, 0)

----------------------------------------------------------------------------
(* json.load(f): the value a text parses to.                               *)

Parsed(exc, val, next) == [exc |-> exc, val |-> val, next |-> next]

RECURSIVE SkipWs(_, _)
SkipWs(toks, i) ==
    IF i <= Len(toks) /\ toks[i].k = "ws" THEN SkipWs(toks, i + 1) ELSE i

IsTok(toks, i, k, v) == i <= Len(toks) /\ toks[i].k = k /\ toks[i].v = v

RECURSIVE ParseValue(_, _)
RECURSIVE ParseArray(_, _, _)
RECURSIVE ParseObject(_, _, _)

\* The value starting at toks[i] (after white space).
ParseValue(toks, i0) ==
    LET i == SkipWs(toks, i0)
    IN  IF i > Len(toks) THEN Parsed("JSONDecodeError", NoValue, i)
        ELSE CASE toks[i].k = "str" -> Parsed("", PyStr(toks[i].v), i + 1)
               [] toks[i].k = "num" -> Parsed("", PyInt(toks[i].v), i + 1)
               [] toks[i].k = "lit" /\ toks[i].v = "null" -> Parsed("", PyNone, i + 1)
               [] IsTok(toks, i, "p", "[]") -> Parsed("", PyList(<<>>), i + 1)
               [] IsTok(toks, i, "p", "{}") -> Parsed("", PyDict(<<>>), i + 1)
               [] IsTok(toks, i, "p", "[") -> ParseArray(toks, i + 1, <<>>)
               [] IsTok(toks, i, "p", "{") -> ParseObject(toks, i + 1, <<>>)
               [] OTHER -> Parsed("JSONDecodeError", NoValue, i)

\* The elements of an array from toks[i0] on, after the elements `acc`.
ParseArray(toks, i0, acc) ==
    LET e == ParseValue(toks, i0)
        j == SkipWs(toks, e.next)
    IN  IF e.exc # "" THEN e
        ELSE IF IsTok(toks, j, "p", "]") THEN Parsed("", PyList(Append(acc, e.val)), j + 1)
        ELSE IF IsTok(toks, j, "p", ",") THEN ParseArray(toks, j + 1, Append(acc, e.val))
        ELSE Parsed("JSONDecodeError", NoValue, j)

\* The members of an object from toks[i0] on, after the pairs `acc`.
ParseObject(toks, i0, acc) ==
    LET i == SkipWs(toks, i0)
    IN  IF ~(i + 1 <= Len(toks) /\ toks[i].k = "str" /\ IsTok(toks, i + 1, "p", ": "))
        THEN Parsed("JSONDecodeError", NoValue, i)
        ELSE LET e == ParseValue(toks, i + 2)
                 j == SkipWs(toks, e.next)
                 pairs == DictSet(acc, PyStr(toks[i].v), e.val)
             IN  IF e.exc # "" THEN e
                 ELSE IF IsTok(toks, j, "p", "}") THEN Parsed("", PyDict(pairs), j + 1)
                 ELSE IF IsTok(toks, j, "p", ",") THEN ParseObject(toks, j + 1, pairs)
                 ELSE Parsed("JSONDecodeError", NoValue, j)

IsText(toks) == \A i \in 1..Len(toks) : toks[i].k \notin {"raw", "op"}

JsonLoad(toks) ==
    IF ~IsText(toks) THEN Parsed("UnicodeDecodeError", NoValue, 1)
    ELSE LET e == ParseValue(toks, 1)
         IN  IF e.exc # "" THEN e
             ELSE IF SkipWs(toks, e.next) <= Len(toks)
             THEN Parsed("JSONDecodeError", NoValue, e.next)
             ELSE e

----------------------------------------------------------------------------
(* Box(content): the attribute-accessible mapping of python-box.           *)

RECURSIVE BoxConvert(_)
RECURSIVE BoxConvertAll(_)
\* The value Box stores for v: dicts become Box, lists BoxList, the rest stays.
BoxConvert(v) ==
    CASE v.t = "dict" -> Py("Box", "", BoxConvertAll(v.items))
      [] v.t = "list" -> Py("BoxList", "", BoxConvertAll(v.items))
      [] v.t = "pair" -> PyPair(v.items[1], BoxConvert(v.items[2]))
      [] OTHER -> v

BoxConvertAll(items) ==
    IF items = <<>> THEN <<>>
    ELSE <<BoxConvert(Head(items))>> \o BoxConvertAll(Tail(items))

Boxed(exc, val) == [exc |-> exc, val |-> val]

RECURSIVE BoxFromIterable(_, _, _)
\* `for k, v in content: self[k] = v` from element i on.
BoxFromIterable(items, i, acc) ==
    IF i > Len(items) THEN Boxed("", Py("Box", "", acc))
    ELSE IF items[i].t \notin {"list", "tuple", "str", "dict"} THEN Boxed("TypeError", NoValue)
    ELSE IF items[i].t \in {"str", "dict"} \/ Len(items[i].items) # 2
    THEN Boxed("ValueError", NoValue)
    ELSE BoxFromIterable(items, i + 1,
                         DictSet(acc, items[i].items[1], BoxConvert(items[i].items[2])))

Box(content) ==
    CASE content.t = "str" -> Boxed("BoxValueError", NoValue)
      [] content.t = "dict" -> Boxed("", BoxConvert(content))
      [] content.t \in {"list", "tuple"} -> BoxFromIterable(content.items, 1, <<>>)
      [] OTHER -> Boxed("BoxValueError", NoValue)

----------------------------------------------------------------------------
(* pickle.dump / joblib.dump and joblib.load: the opcode stream of an      *)
(* object, and the stack machine that rebuilds it.                         *)

PickleOps == {"PROTO", "BININT", "BINUNICODE", "NONE", "MARK", "TUPLE", "LIST",
              "DICT", "SET", "GLOBAL", "NEWOBJ", "STOP"}

RECURSIVE Save(_)
RECURSIVE SaveAll(_, _, _)
\* The opcodes that push o.
Save(o) ==
    CASE o.t = "int" -> Enc(<<Tok("BININT", o.v)>>, "")
      [] o.t = "str" -> Enc(<<Tok("BINUNICODE", o.v)>>, "")
      [] o.t = "None" -> Enc(<<Tok("NONE", "")>>, "")
      [] o.t = "tuple" -> SaveAll(o.items, <<Tok("MARK", "")>>, Tok("TUPLE", ""))
      [] o.t = "list" -> SaveAll(o.items, <<Tok("MARK", "")>>, Tok("LIST", ""))
      [] o.t = "set" -> SaveAll(o.items, <<Tok("MARK", "")>>, Tok("SET", ""))
      [] o.t = "pair" -> SaveAll(o.items, <<>>, Tok("MARK", ""))
      [] o.t = "dict" -> SaveAll(o.items, <<Tok("MARK", "")>>, Tok("DICT", ""))
      [] o.t = "instance" -> Enc(<<Tok("GLOBAL", "Plain"), Tok("NEWOBJ", o.v)>>, "")
      [] OTHER -> Enc(<<>>, "PicklingError")

SaveAll(items, acc, close) ==
    IF items = <<>> THEN Enc(IF close.k = "MARK" THEN acc ELSE Append(acc, close), "")
    ELSE LET e == Save(Head(items))
         IN  IF e.exc # "" THEN e ELSE SaveAll(Tail(items), acc \o e.toks, close)

\* The stream of one dump; the pickler hands it to the file when it is complete.
Pickle(o) ==
    LET e == Save(o)
    IN  IF e.exc # "" THEN Enc(<<>>, e.exc)
        ELSE Enc(<<Tok("PROTO", "4")>> \o e.toks \o <<Tok("STOP", "")>>, "")

Mark == Py("mark", "", <<>>)

RECURSIVE TopMark(_, _)
\* The position of the topmost mark of the stack, 0 when there is none.
TopMark(stack, i) ==
    IF i = 0 THEN 0 ELSE IF stack[i] = Mark THEN i ELSE TopMark(stack, i - 1)

RECURSIVE PairUp(_, _)
\* k1 v1 k2 v2 ... as the pairs of a dict.
PairUp(items, acc) ==
    IF Len(items) < 2 THEN acc
    ELSE PairUp(SubSeq(items, 3, Len(items)), DictSet(acc, items[1], items[2]))

RECURSIVE Unpickle(_, _, _)
\* Run toks[i..] on the stack.
Unpickle(toks, i, stack) ==
    IF i > Len(toks) THEN Parsed("EOFError", NoValue, i)
    ELSE LET op == toks[i]
             m == TopMark(stack, Len(stack))
             above == SubSeq(stack, m + 1, Len(stack))
             below == SubSeq(stack, 1, m - 1)
         IN  CASE op.k = "PROTO" -> Unpickle(toks, i + 1, stack)
               [] op.k = "BININT" -> Unpickle(toks, i + 1, Append(stack, PyInt(op.v)))
               [] op.k = "BINUNICODE" -> Unpickle(toks, i + 1, Append(stack, PyStr(op.v)))
               [] op.k = "NONE" -> Unpickle(toks, i + 1, Append(stack, PyNone))
               [] op.k = "MARK" -> Unpickle(toks, i + 1, Append(stack, Mark))
               [] op.k \in {"TUPLE", "LIST", "SET", "DICT"} /\ m # 0 ->
                    Unpickle(toks, i + 1, Append(below,
                        CASE op.k = "TUPLE" -> PyTuple(above)
                          [] op.k = "LIST" -> PyList(above)
                          [] op.k = "SET" -> PySet(above)
                          [] OTHER -> PyDict(PairUp(above, <<>>))))
               [] op.k = "GLOBAL" -> Unpickle(toks, i + 1, Append(stack, Py("type", op.v, <<>>)))
               [] op.k = "NEWOBJ" /\ stack # <<>> ->
                    \* cls.__new__(cls): another object than the one pickled
                    Unpickle(toks, i + 1,
                             Append(SubSeq(stack, 1, Len(stack) - 1),
                                    PyInstance(op.v \o "'")))
               [] op.k = "STOP" /\ stack # <<>> -> Parsed("", stack[Len(stack)], i + 1)
               [] OTHER -> Parsed("UnpicklingError", NoValue, i)

JoblibLoad(toks) == Unpickle(toks, 1, <<>>)

----------------------------------------------------------------------------
(* yaml.safe_load: the value of a YAML document.  A document is a sequence *)
(* of "key" (a mapping key with its colon), "num", "plain", "nl" and       *)
(* "comment" tokens in block style, or a flow collection in JSON's tokens. *)

RECURSIVE Uncomment(_)
\* The tokens that carry content.
Uncomment(toks) ==
    IF toks = <<>> THEN <<>>
    ELSE IF Head(toks).k \in {"comment", "nl", "ws"} THEN Uncomment(Tail(toks))
    ELSE <<Head(toks)>> \o Uncomment(Tail(toks))

YamlScalar(t) == IF t.k = "num" THEN PyInt(t.v) ELSE PyStr(t.v)

RECURSIVE BlockMapping(_, _, _)
\* key [scalar] key [scalar] ... from body[i] on; a key without a scalar is null.
BlockMapping(body, i, acc) ==
    IF i > Len(body) THEN Parsed("", PyDict(acc), i)
    ELSE IF body[i].k # "key" THEN Parsed("YAMLError", NoValue, i)
    ELSE IF i + 1 <= Len(body) /\ body[i + 1].k \in {"num", "plain"}
    THEN BlockMapping(body, i + 2, DictSet(acc, PyStr(body[i].v), YamlScalar(body[i + 1])))
    ELSE BlockMapping(body, i + 1, DictSet(acc, PyStr(body[i].v), PyNone))

SafeLoad(toks) ==
    LET body == Uncomment(toks)
    IN  IF ~IsText(toks) THEN Parsed("YAMLError", NoValue, 1)
        ELSE IF body = <<>> THEN Parsed("", PyNone, 1)
        ELSE IF body[1].k = "key" THEN BlockMapping(body, 1, <<>>)
        ELSE IF body[1].k \in {"num", "plain"} THEN
            IF Len(body) = 1 THEN Parsed("", YamlScalar(body[1]), 2)
            ELSE Parsed("YAMLError", NoValue, 2)
        ELSE LET e == ParseValue(body, 1)
             IN  IF e.exc # "" \/ e.next <= Len(body) THEN Parsed("YAMLError", NoValue, 1)
                 ELSE e

----------------------------------------------------------------------------
(* The file system.  A path is the sequence of its components; <<>> is the *)
(* empty string, which names nothing (the working directory is its parent  *)
(* of every one-component path and always exists).                         *)

AllPaths == {<<"f">>, <<"d">>, <<"d", "f">>, <<"d", "e">>}

NoNode == [kind |-> "none", data |-> <<>>]
DirNode == [kind |-> "dir", data |-> <<>>]
FileNode(data) == [kind |-> "file", data |-> data]

Dirname(p) == SubSeq(p, 1, Len(p) - 1)

Kind(f, p) == IF p = <<>> THEN "dir" ELSE f[p].kind

Dirs(f) == {p \in AllPaths : f[p].kind = "dir"}

Ancestors(p) == {SubSeq(p, 1, n) : n \in 1..(Len(p) - 1)}

\* The error of resolving the directory part of p, "" when it is a directory.
Lookup(f, p) ==
    IF \E a \in Ancestors(p) : Kind(f, a) = "file" THEN "NotADirectoryError"
    ELSE IF \E a \in Ancestors(p) : Kind(f, a) = "none" THEN "FileNotFoundError"
    ELSE ""

\* os.path.isdir(p)
IsDir(f, p) == p # <<>> /\ Lookup(f, p) = "" /\ f[p].kind = "dir"

\* open(p, "w") / open(p, "wb"): the error, "" when the file is opened (and cut).
OpenWrite(f, p) ==
    IF p = <<>> THEN "FileNotFoundError"
    ELSE IF Lookup(f, p) # "" THEN Lookup(f, p)
    ELSE IF Kind(f, p) = "dir" THEN "IsADirectoryError"
    ELSE ""

\* open(p) / open(p, "rb"): the error, "" when the file is opened.
OpenRead(f, p) ==
    IF p = <<>> THEN "FileNotFoundError"
    ELSE IF Lookup(f, p) # "" THEN Lookup(f, p)
    ELSE IF Kind(f, p) = "none" THEN "FileNotFoundError"
    ELSE IF Kind(f, p) = "dir" THEN "IsADirectoryError"
    ELSE ""

Done(f, exc) == [fs |-> f, exc |-> exc]

\* os.mkdir(p)
Mkdir(f, p) ==
    IF p = <<>> THEN Done(f, "FileNotFoundError")
    ELSE IF Lookup(f, p) # "" THEN Done(f, Lookup(f, p))
    ELSE IF Kind(f, p) # "none" THEN Done(f, "FileExistsError")
    ELSE Done([f EXCEPT ![p] = DirNode], "")

RECURSIVE Makedirs_no_exist_ok(_, _)
\* os.makedirs(p) without exist_ok: the error of mkdir is kept.
Makedirs_no_exist_ok(f, p) ==
    LET head == Dirname(p)
        up == IF head # <<>> /\ Kind(f, head) = "none" THEN Makedirs_no_exist_ok(f, head)
              ELSE Done(f, "")
    IN  IF up.exc # "" THEN up ELSE Mkdir(up.fs, p)

RECURSIVE Makedirs(_, _)
\* os.makedirs(p, exist_ok=True): the missing ancestors first, then p itself;
\* an error of mkdir is dropped when p is a directory already.
Makedirs(f, p) ==
    LET head == Dirname(p)
        up == IF head # <<>> /\ Kind(f, head) = "none" THEN Makedirs(f, head)
              ELSE Done(f, "")
        made == Mkdir(up.fs, p)
    IN  IF up.exc \notin {"", "FileExistsError"} THEN up
        ELSE IF made.exc # "" /\ IsDir(up.fs, p) THEN Done(up.fs, "")
        ELSE made

----------------------------------------------------------------------------
(* @ensure_annotations: isinstance of every annotated argument, and of the *)
(* return value, against the annotation.                                   *)

\* isinstance(value of class cls, templ): "True", "False" or the TypeError of
\* an annotation that is no class (typing.Any, the builtin any).
IsInstance(cls, templ) ==
    CASE templ \in {"Any", "any"} -> "TypeError"
      [] templ = "Path" -> IF cls = "PosixPath" THEN "True" ELSE "False"
      [] templ = "dict" -> IF cls \in {"dict", "Box"} THEN "True" ELSE "False"
      [] templ = "list" -> IF cls \in {"list", "BoxList"} THEN "True" ELSE "False"
      [] OTHER -> IF cls = templ THEN "True" ELSE "False"

RECURSIVE CheckArgs(_)
\* The error of the argument check over <<class, annotation>> pairs, "" if none.
CheckArgs(args) ==
    IF args = <<>> THEN ""
    ELSE LET r == IsInstance(Head(args)[1], Head(args)[2])
         IN  IF r = "TypeError" THEN "TypeError"
             ELSE IF r = "False" THEN "EnsureError"
             ELSE CheckArgs(Tail(args))

----------------------------------------------------------------------------
(* The helpers.  Each yields the file system it leaves and its outcome:    *)
(* exc is the exception the caller sees ("" for a return), cause the       *)
(* exception the library operation inside raised ("" if none did).         *)

Info(msg) == [level |-> "info", msg |-> msg]
Error(msg) == [level |-> "error", msg |-> msg]

Outcome(f, exc, cause, ret, logs) ==
    [fs |-> f, exc |-> exc, cause |-> cause, ret |-> ret, logs |-> logs]

\* The wrapper of @ensure_annotations around a body outcome.
Ensured(f, args, returns, body) ==
    LET bad == CheckArgs(args)
        r == IsInstance(body.ret.t, returns)
    IN  IF bad # "" THEN Outcome(f, bad, "", NoValue, <<>>)
        ELSE IF body.exc # "" \/ returns = "" THEN body
        ELSE IF r = "TypeError" THEN [body EXCEPT !.exc = "TypeError", !.ret = NoValue]
        ELSE IF r = "False" THEN [body EXCEPT !.exc = "EnsureError", !.ret = NoValue]
        ELSE body

\* read_yaml without the handler of BoxValueError.
read_yaml_body_untranslated(f, p) ==
    LET opened == OpenRead(f, p)
        content == SafeLoad(f[p].data)
        box == Box(content.val)
    IN  IF opened # "" THEN Outcome(f, opened, opened, NoValue, <<>>)
        ELSE IF content.exc # "" THEN Outcome(f, content.exc, content.exc, NoValue, <<>>)
        ELSE IF box.exc # "" THEN Outcome(f, box.exc, box.exc, NoValue, <<>>)
        ELSE Outcome(f, "", "", box.val, <<>>)

read_yaml_body(f, p) ==
    LET opened == OpenRead(f, p)
        content == SafeLoad(f[p].data)
        box == Box(content.val)
    IN  IF opened # "" THEN Outcome(f, opened, opened, NoValue, <<>>)
        ELSE IF content.exc # "" THEN Outcome(f, content.exc, content.exc, NoValue, <<>>)
        ELSE IF box.exc = "BoxValueError"
        THEN Outcome(f, "ValueError", "BoxValueError", NoValue, <<>>)
        ELSE IF box.exc # "" THEN Outcome(f, box.exc, box.exc, NoValue, <<>>)
        ELSE Outcome(f, "", "", box.val, <<>>)

read_yaml(f, cls, p) ==
    Ensured(f, <<<<cls, "Path">>>>, "Box", read_yaml_body(f, p))

RECURSIVE create_directories_body(_, _)
create_directories_body(f, dirs) ==
    IF dirs = <<>> THEN Outcome(f, "", "", PyNone, <<>>)
    ELSE LET made == Makedirs(f, Head(dirs))
         IN  IF made.exc # "" THEN Outcome(made.fs, made.exc, made.exc, NoValue, <<>>)
             ELSE create_directories_body(made.fs, Tail(dirs))

create_directories(f, dirs) ==
    Ensured(f, <<<<"list", "list">>>>, "", create_directories_body(f, dirs))

\* save_json with the file opened for appending.
save_json_body_append(f, p, data) ==
    LET opened == OpenWrite(f, p)
        dumped == JsonDump(data)
        written == [f EXCEPT ![p] = FileNode(f[p].data \o dumped.toks)]
    IN  IF opened # "" THEN Outcome(f, opened, opened, NoValue, <<>>)
        ELSE IF dumped.exc # "" THEN Outcome(written, dumped.exc, dumped.exc, NoValue, <<>>)
        ELSE Outcome(written, "", "", PyNone, <<Info("json saved")>>)

\* save_json without its log message.
save_json_body_silent(f, p, data) ==
    LET opened == OpenWrite(f, p)
        dumped == JsonDump(data)
        written == [f EXCEPT ![p] = FileNode(dumped.toks)]
    IN  IF opened # "" THEN Outcome(f, opened, opened, NoValue, <<>>)
        ELSE IF dumped.exc # "" THEN Outcome(written, dumped.exc, dumped.exc, NoValue, <<>>)
        ELSE Outcome(written, "", "", PyNone, <<>>)

save_json_body(f, p, data) ==
    LET opened == OpenWrite(f, p)
        dumped == JsonDump(data)
        written == [f EXCEPT ![p] = FileNode(dumped.toks)]
    IN  IF opened # "" THEN Outcome(f, opened, opened, NoValue, <<>>)
        ELSE IF dumped.exc # "" THEN Outcome(written, dumped.exc, dumped.exc, NoValue, <<>>)
        ELSE Outcome(written, "", "", PyNone, <<Info("json saved")>>)

save_json(f, cls, p, data) ==
    Ensured(f, <<<<cls, "Path">>, <<data.t, "dict">>>>, "", save_json_body(f, p, data))

load_json_body(f, p) ==
    LET opened == OpenRead(f, p)
        content == JsonLoad(f[p].data)
        box == Box(content.val)
    IN  IF opened # "" THEN Outcome(f, opened, opened, NoValue, <<>>)
        ELSE IF content.exc # "" THEN Outcome(f, content.exc, content.exc, NoValue, <<>>)
        ELSE IF box.exc # ""
        THEN Outcome(f, box.exc, box.exc, NoValue, <<Info("json loaded")>>)
        ELSE Outcome(f, "", "", box.val, <<Info("json loaded")>>)

load_json(f, cls, p) ==
    Ensured(f, <<<<cls, "Path">>>>, "Box", load_json_body(f, p))

----------------------------------------------------------------------------
(* get_size: round(os.path.getsize(path) / 1024) in a formatted string.    *)

Digit(n) ==
    CASE n = 0 -> "0" [] n = 1 -> "1" [] n = 2 -> "2" [] n = 3 -> "3" [] n = 4 -> "4"
      [] n = 5 -> "5" [] n = 6 -> "6" [] n = 7 -> "7" [] n = 8 -> "8" [] OTHER -> "9"

RECURSIVE Str(_)
\* str(n) of a natural number: its decimal digits.
Str(n) == IF n < 10 THEN Digit(n) ELSE Str(n \div 10) \o Digit(n % 10)

\* n // unit: the whole units of n.
Round_floor(n, unit) == n \div unit

\* round(n / unit): to the nearest integer, a tie to the even one.
Round(n, unit) ==
    LET q == n \div unit
        r == n % unit
    IN  IF 2 * r < unit THEN q
        ELSE IF 2 * r > unit THEN q + 1
        ELSE IF q % 2 = 0 THEN q ELSE q + 1

size_in_kb(n) == Round(n, 1024)

\* os.stat(p): the error, "" when p names a file or a directory.
Stat(f, p) ==
    IF p = <<>> THEN "FileNotFoundError"
    ELSE IF Lookup(f, p) # "" THEN Lookup(f, p)
    ELSE IF Kind(f, p) = "none" THEN "FileNotFoundError"
    ELSE ""

get_size_body(f, p) ==
    LET stat == Stat(f, p)
    IN  IF stat # "" THEN Outcome(f, stat, stat, NoValue, <<>>)
        ELSE Outcome(f, "", "",
                     PyStr("~ " \o Str(size_in_kb(Bytes(f[p].data))) \o " KB"), <<>>)

get_size(f, cls, p) ==
    Ensured(f, <<<<cls, "Path">>>>, "str", get_size_body(f, p))

----------------------------------------------------------------------------
(* The binary helpers.                                                     *)

\* save_object without the os.makedirs of the directory part.
save_object_body_no_makedirs(f, p, obj) ==
    LET opened == OpenWrite(f, p)
        dumped == Pickle(obj)
        written == [f EXCEPT ![p] = FileNode(dumped.toks)]
    IN  IF opened # "" THEN Outcome(f, opened, opened, NoValue, <<>>)
        ELSE IF dumped.exc # "" THEN Outcome(written, dumped.exc, dumped.exc, NoValue, <<>>)
        ELSE Outcome(written, "", "", PyNone, <<>>)

save_object_body(f, p, obj) ==
    LET made == Makedirs(f, Dirname(p))
        opened == OpenWrite(made.fs, p)
        dumped == Pickle(obj)
        written == [made.fs EXCEPT ![p] = FileNode(dumped.toks)]
    IN  IF made.exc # "" THEN Outcome(made.fs, made.exc, made.exc, NoValue, <<>>)
        ELSE IF opened # "" THEN Outcome(made.fs, opened, opened, NoValue, <<>>)
        ELSE IF dumped.exc # "" THEN Outcome(written, dumped.exc, dumped.exc, NoValue, <<>>)
        ELSE Outcome(written, "", "", PyNone, <<>>)

save_object(f, cls, p, obj) ==
    Ensured(f, <<<<cls, "Path">>>>, "", save_object_body(f, p, obj))

\* joblib.dump(value=data, filename=path): its pickler writes the protocol
\* header to the file before it visits the object.
JoblibDump(data) ==
    LET e == Pickle(data)
    IN  IF e.exc # "" THEN Enc(<<Tok("PROTO", "4")>>, e.exc) ELSE e

save_bin_body(f, p, data) ==
    LET opened == OpenWrite(f, p)
        dumped == JoblibDump(data)
        written == [f EXCEPT ![p] = FileNode(dumped.toks)]
    IN  IF opened # ""
        THEN Outcome(f, opened, opened, NoValue, <<Error("binary save failed")>>)
        ELSE IF dumped.exc # ""
        THEN Outcome(written, dumped.exc, dumped.exc, NoValue, <<Error("binary save failed")>>)
        ELSE Outcome(written, "", "", PyNone, <<Info("binary saved")>>)

save_bin(f, cls, p, data) ==
    Ensured(f, <<<<data.t, "Any">>, <<cls, "Path">>>>, "", save_bin_body(f, p, data))

load_bin_body(f, p) ==
    LET opened == OpenRead(f, p)
        data == JoblibLoad(f[p].data)
    IN  IF opened # "" THEN Outcome(f, opened, opened, NoValue, <<>>)
        ELSE IF data.exc # "" THEN Outcome(f, data.exc, data.exc, NoValue, <<>>)
        ELSE Outcome(f, "", "", data.val, <<Info("binary loaded")>>)

load_bin(f, cls, p) ==
    Ensured(f, <<<<cls, "Path">>>>, "any", load_bin_body(f, p))

----------------------------------------------------------------------------
(* evaluate_model.  The registry `models` is a sequence of [key, est]      *)
(* entries in iteration order, `param` maps keys to search spaces (sets of *)
(* candidate settings), `best` is the setting the search picks per key and *)
(* `failing` the key whose search raises.  An estimator is the pair of the *)
(* setting it holds and the setting it was last fitted with.               *)

Ests == {"e1", "e2", "e3"}
Settings == {1, 2}

EstIndex(e) == CASE e = "e1" -> 1 [] e = "e2" -> 2 [] OTHER -> 3

\* r2_score(y_test, model.predict(X_test)): a value of the fitted estimator.
r2_score(e, fitted) == 10 * EstIndex(e) + fitted

EmptyReport == [k \in {} |-> 0]

Evaluated(est, exc, cause, report, trace) ==
    [est |-> est, exc |-> exc, cause |-> cause, report |-> report, trace |-> trace]

Event(what, key) == [what |-> what, key |-> key]

\* The report begun anew in every round of the loop.
ReportSet_fresh(report, key, score) == [k \in {key} |-> score]

\* report[key] = test_model_score
ReportSet(report, key, score) ==
    [k \in DOMAIN report \cup {key} |-> IF k = key THEN score ELSE report[k]]

RECURSIVE evaluate_model_loop(_, _, _, _, _, _, _, _)
\* The loop body from index i on.
evaluate_model_loop(est, models, param, best, failing, i, report, trace) ==
    IF i > Len(models) THEN Evaluated(est, "", "", report, trace)
    ELSE LET model == models[i].est
             key == models[i].key
             searched == Append(trace, Event("search", key))
             set == [est EXCEPT ![model].params = best[key]]
             fit == [set EXCEPT ![model].fitted = set[model].params]
             test_model_score == r2_score(model, fit[model].fitted)
             done == searched \o <<Event("set_params", key), Event("fit", key),
                                   Event("score", key)>>
         IN  IF key \notin DOMAIN param
             THEN Evaluated(est, "KeyError", "KeyError", EmptyReport, trace)
             ELSE IF key = failing
             THEN Evaluated(est, "ValueError", "ValueError", EmptyReport, searched)
             ELSE evaluate_model_loop(fit, models, param, best, failing, i + 1,
                                      ReportSet(report, key, test_model_score), done)

\* evaluate_model with the keys of the registry checked before the loop.
evaluate_model_validating(est, models, param, best, failing) ==
    IF \E i \in 1..Len(models) : models[i].key \notin DOMAIN param
    THEN Evaluated(est, "KeyError", "KeyError", EmptyReport, <<>>)
    ELSE evaluate_model_loop(est, models, param, best, failing, 1, EmptyReport, <<>>)

evaluate_model(est, models, param, best, failing) ==
    evaluate_model_loop(est, models, param, best, failing, 1, EmptyReport, <<>>)

----------------------------------------------------------------------------
(* The inputs of the calls.                                                *)

Classes == {"PosixPath", "str"}
JsonPaths == {<<"d", "f">>}
BinPaths == {<<"f">>, <<"d", "f">>}
DirPaths == {<<"d">>, <<"d", "e">>, <<"f">>}
ReadPaths == {<<"f">>, <<"d">>, <<"d", "f">>}

JsonKeys == {PyStr("a"), PyInt("1")}
JsonValues == {PyInt("1"), PyTuple(<<PyInt("1")>>),
               PyDict(<<PyPair(PyStr("a"), PyList(<<PyInt("1")>>))>>), PySet(<<>>)}

RECURSIVE PairsOfLen(_, _, _)
\* The sequences of n pairs over keys and values.
PairsOfLen(n, keys, values) ==
    IF n = 0 THEN {<<>>}
    ELSE {Append(ps, PyPair(k, v)) :
             ps \in PairsOfLen(n - 1, keys, values),
             k \in keys, v \in values}

Distinct(ps) == \A i, j \in 1..Len(ps) : i # j => ps[i].items[1] # ps[j].items[1]

Dicts == {PyDict(ps) : ps \in {qs \in UNION {PairsOfLen(n, JsonKeys, JsonValues) :
                                                n \in 0..MaxDictLen} : Distinct(qs)}}

Objects == {PyInt("1"), PyTuple(<<PyInt("1")>>), PyInstance("o"), PyLambda}

RECURSIVE SeqsUpTo(_, _)
\* The sequences over S of length at most n.
SeqsUpTo(S, n) ==
    IF n = 0 THEN {<<>>}
    ELSE SeqsUpTo(S, n - 1) \cup {Append(q, x) : q \in SeqsUpTo(S, n - 1), x \in S}

DirLists == SeqsUpTo(DirPaths, MaxDirs)

Sizes == {q * 1024 + r : q \in 0..MaxKB, r \in {0, 511, 512, 513}}

YamlKeys == {PyStr("a"), PyStr("b"), PyStr("c")}
YamlValues == {PyInt("1"), PyStr("x"), PyNone}

RECURSIVE YamlBlock(_)
\* The block-style document of the pairs of a mapping.
YamlBlock(ps) ==
    IF ps = <<>> THEN <<>>
    ELSE LET k == Head(ps).items[1]
             v == Head(ps).items[2]
         IN  <<Tok("key", k.v)>>
             \o (CASE v.t = "int" -> <<Tok("num", v.v)>>
                   [] v.t = "str" -> <<Tok("plain", v.v)>>
                   [] OTHER -> <<>>)
             \o <<Tok("nl", "\n")>> \o YamlBlock(Tail(ps))

YamlMappings == {qs \in UNION {PairsOfLen(n, YamlKeys, YamlValues) : n \in 1..MaxYamlKeys} :
                    Distinct(qs)}

YamlDocs ==
    {<<>>, <<Tok("nl", "\n")>>, <<Tok("comment", "# empty"), Tok("nl", "\n")>>}
    \cup {YamlBlock(ps) : ps \in YamlMappings}
    \cup {<<Tok("comment", "# config"), Tok("nl", "\n")>> \o YamlBlock(ps) :
             ps \in {qs \in YamlMappings : Len(qs) = 1}}
    \cup {<<Tok("plain", "x"), Tok("nl", "\n")>>, <<Tok("num", "1")>>,
          <<Tok("p", "[]")>>, <<Tok("p", "{}")>>,
          <<Tok("p", "["), Tok("num", "1"), Tok("p", "]")>>,
          <<Tok("p", "["), Tok("p", "["), Tok("str", "a"), Tok("p", ","), Tok("num", "1"),
            Tok("p", "]"), Tok("p", "]")>>,
          <<Tok("key", "a"), Tok("p", "[")>>,
          <<Tok("plain", "x"), Tok("key", "a")>>}

ModelKeys == {"rf", "lr", "gb"}
EstOf(key) == CASE key = "rf" -> "e1" [] key = "lr" -> "e2" [] OTHER -> "e3"

NoRepeat(q) == \A i, j \in 1..Len(q) : i # j => q[i] # q[j]

\* The registries: up to MaxModels keys, each with its own estimator.
Registries ==
    {[i \in 1..Len(q) |-> [key |-> q[i], est |-> EstOf(q[i])]] :
        q \in {r \in SeqsUpTo(ModelKeys, MaxModels) : NoRepeat(r)}}

\* The parameter spaces: every key, or all but one, each with every setting.
ParamSpaces == {[k \in D |-> Settings] :
                   D \in {ModelKeys} \cup {ModelKeys \ {k} : k \in ModelKeys}}

\* The settings the searches may find best, per key.
Picks == {[k \in ModelKeys |-> IF k = "lr" THEN a ELSE b] : a, b \in Settings}

Failing == {"none", "lr"}

----------------------------------------------------------------------------
(* The state machine: one action per helper.  `last` records the call: its *)
(* arguments, its outcome, and what the caller could see of the state      *)
(* before it (the directories there were, what a write replaced).          *)

NoPath == <<>>

\* What the call did to the file at p: it replaced "nothing", the "same"
\* content, another "json" document, or "other" content.
Replaced(f, p, g) ==
    IF p = NoPath \/ f[p].kind # "file" \/ g[p].kind # "file" THEN "nothing"
    ELSE IF f[p].data = g[p].data THEN "same"
    ELSE IF JsonLoad(f[p].data).exc = "" THEN "json"
    ELSE "other"

Call(op, cls, p, arg, dirs, out) ==
    [op |-> op, cls |-> cls, path |-> p, arg |-> arg, dirs |-> dirs,
     exc |-> out.exc, cause |-> out.cause, ret |-> out.ret, logs |-> out.logs,
     over |-> Replaced(fs, p, out.fs), preDirs |-> Dirs(fs),
     models |-> <<>>, param |-> EmptyReport, best |-> EmptyReport, failing |-> "",
     report |-> EmptyReport, trace |-> <<>>]

NoCall ==
    [op |-> "", cls |-> "", path |-> NoPath, arg |-> NoValue, dirs |-> <<>>,
     exc |-> "", cause |-> "", ret |-> NoValue, logs |-> <<>>,
     over |-> "nothing", preDirs |-> {},
     models |-> <<>>, param |-> EmptyReport, best |-> EmptyReport, failing |-> "",
     report |-> EmptyReport, trace |-> <<>>]

NewEstimators == [e \in Ests |-> [params |-> 0, fitted |-> 0]]

ReadYaml ==
    \E cls \in Classes, p \in ReadPaths :
        LET out == read_yaml(fs, cls, p)
        IN  /\ fs' = out.fs
            /\ last' = Call("read_yaml", cls, p, NoValue, <<>>, out)
            /\ UNCHANGED estimators

CreateDirectories ==
    \E dirs \in DirLists :
        LET out == create_directories(fs, dirs)
        IN  /\ fs' = out.fs
            /\ last' = Call("create_directories", "", NoPath, NoValue, dirs, out)
            /\ UNCHANGED estimators

SaveJson ==
    \E cls \in Classes, p \in JsonPaths, data \in Dicts :
        /\ cls = "PosixPath" \/ data = PyDict(<<>>)
        /\ LET out == save_json(fs, cls, p, data)
           IN  /\ fs' = out.fs
               /\ last' = Call("save_json", cls, p, data, <<>>, out)
               /\ UNCHANGED estimators

LoadJson ==
    \E cls \in Classes, p \in JsonPaths :
        LET out == load_json(fs, cls, p)
        IN  /\ fs' = out.fs
            /\ last' = Call("load_json", cls, p, NoValue, <<>>, out)
            /\ UNCHANGED estimators

\* The size of a directory is the file system's own business: the paths
\* measured name files or nothing.
GetSize ==
    \E cls \in Classes, p \in ReadPaths :
        /\ Kind(fs, p) # "dir"
        /\ LET out == get_size(fs, cls, p)
           IN  /\ fs' = out.fs
               /\ last' = Call("get_size", cls, p, NoValue, <<>>, out)
               /\ UNCHANGED estimators

SaveObject ==
    \E cls \in Classes, p \in BinPaths, obj \in Objects :
        /\ cls = "PosixPath" \/ obj = PyInt("1")
        /\ LET out == save_object(fs, cls, p, obj)
           IN  /\ fs' = out.fs
               /\ last' = Call("save_object", cls, p, obj, <<>>, out)
               /\ UNCHANGED estimators

SaveBin ==
    \E cls \in Classes, p \in BinPaths, data \in Objects :
        /\ cls = "PosixPath" \/ data = PyInt("1")
        /\ LET out == save_bin(fs, cls, p, data)
           IN  /\ fs' = out.fs
               /\ last' = Call("save_bin", cls, p, data, <<>>, out)
               /\ UNCHANGED estimators

LoadBin ==
    \E cls \in Classes, p \in BinPaths :
        LET out == load_bin(fs, cls, p)
        IN  /\ fs' = out.fs
            /\ last' = Call("load_bin", cls, p, NoValue, <<>>, out)
            /\ UNCHANGED estimators

EvaluateModel ==
    \E models \in Registries, param \in ParamSpaces, failing \in Failing :
        \E best \in Picks :
            /\ \A k \in DOMAIN param : best[k] \in param[k]
            /\ LET out == evaluate_model(estimators, models, param, best, failing)
               IN  /\ estimators' = out.est
                   /\ last' = [NoCall EXCEPT !.op = "evaluate_model",
                                             !.exc = out.exc, !.cause = out.cause,
                                             !.models = models, !.param = param,
                                             !.best = best, !.failing = failing,
                                             !.report = out.report, !.trace = out.trace]
                   /\ UNCHANGED fs

----------------------------------------------------------------------------
(* The file helpers, from an empty working directory.                      *)

Init ==
    /\ fs = [p \in AllPaths |-> NoNode]
    /\ estimators = NewEstimators
    /\ last = NoCall

Next ==
    \/ CreateDirectories
    \/ SaveJson
    \/ LoadJson
    \/ SaveObject
    \/ SaveBin
    \/ LoadBin

Spec == Init /\ [][Next]_vars

(* The readers, over the files a caller may find: a configuration file at  *)
(* f (any of the documents, or none) and a file of a known length at d.    *)

InitRead ==
    /\ fs \in {[p \in AllPaths |->
                  CASE p = <<"f">> -> c
                    [] p = <<"d">> -> r
                    [] OTHER -> NoNode] :
                c \in {NoNode} \cup {FileNode(doc) : doc \in YamlDocs},
                r \in {NoNode} \cup {FileNode(<<Raw(n)>>) : n \in Sizes}}
    /\ estimators = NewEstimators
    /\ last = NoCall

NextRead ==
    \/ ReadYaml
    \/ GetSize

SpecRead == InitRead /\ [][NextRead]_vars

(* The evaluation, over registries whose estimators start unfitted.        *)

NextEval == EvaluateModel

SpecEval == Init /\ [][NextEval]_vars

----------------------------------------------------------------------------
(* The claims.                                                             *)

WellTyped == last.cls = "PosixPath"

\* The call did not fail on its path (missing parent, a directory in the way).
Writable == last.cause \notin {"FileNotFoundError", "NotADirectoryError",
                               "IsADirectoryError", "FileExistsError"}

RECURSIVE JsonNative(_)
\* Values JSON has a form of its own for: strings, integers, None, lists, and
\* dicts whose keys are strings, of such values.
JsonNative(v) ==
    CASE v.t \in {"str", "int", "None"} -> TRUE
      [] v.t = "list" -> \A i \in 1..Len(v.items) : JsonNative(v.items[i])
      [] v.t = "dict" -> \A i \in 1..Len(v.items) :
                            /\ v.items[i].items[1].t = "str"
                            /\ JsonNative(v.items[i].items[2])
      [] OTHER -> FALSE

Reloaded == load_json(fs, "PosixPath", last.path)

\* C1 (as stated): save_json(p, d) followed by load_json(p) returns a mapping
\* equal to d, for every dict d and every writable path p.
C1_RoundTripEveryDict ==
    (last.op = "save_json" /\ WellTyped /\ Writable)
        => /\ last.exc = ""
           /\ Reloaded.exc = ""
           /\ PyEq(Reloaded.ret, last.arg)

\* C1 (amended): for every dict d whose keys are strings and whose values JSON
\* has a form for, and every writable path p, save_json(p, d) followed by
\* load_json(p) returns a mapping equal to d, also when p held another JSON
\* document before the save.
C1_RoundTripJsonNative ==
    (last.op = "save_json" /\ WellTyped /\ Writable /\ JsonNative(last.arg))
        => /\ last.exc = ""
           /\ Reloaded.exc = ""
           /\ Reloaded.ret.t = "Box"
           /\ PyEq(Reloaded.ret, last.arg)
           /\ DictKeys(Reloaded.ret) = DictKeys(last.arg)

C1_Witness ==
    /\ last.op = "save_json" /\ WellTyped /\ last.exc = ""
    /\ JsonNative(last.arg) /\ Len(last.arg.items) > 0
    /\ last.over = "json"
    /\ PyEq(Reloaded.ret, last.arg)

ParentExisted == Dirname(last.path) = <<>> \/ Dirname(last.path) \in last.preDirs

Unpickled == load_bin(fs, "PosixPath", last.path)

\* C2: for every object x and every path p whose parent directory exists,
\* save_bin(x, p) followed by load_bin(p) completes without error and returns
\* a value equal to x.
C2_BinRoundTrip ==
    (last.op = "save_bin" /\ WellTyped /\ ParentExisted /\ Writable)
        => /\ last.exc = ""
           /\ Unpickled.exc = ""
           /\ PyEq(Unpickled.ret, last.arg)

RegistryKeys(models) == {models[i].key : i \in 1..Len(models)}

\* C3: when evaluate_model returns, the keys of the report are exactly the keys
\* of the registry, each entry is the score of that model as refit with the
\* setting the search found best for it, and an empty registry yields an empty
\* report.
C3_ReportCoversRegistry ==
    (last.op = "evaluate_model" /\ last.exc = "")
        => /\ DOMAIN last.report = RegistryKeys(last.models)
           /\ \A i \in 1..Len(last.models) :
                 LET m == last.models[i]
                 IN  /\ estimators[m.est].params = last.best[m.key]
                     /\ estimators[m.est].fitted = last.best[m.key]
                     /\ last.report[m.key] = r2_score(m.est, last.best[m.key])
           /\ (last.models = <<>> => last.report = EmptyReport)

C3_Witness ==
    /\ last.op = "evaluate_model" /\ last.exc = ""
    /\ Len(last.models) >= 2
    /\ \E i, j \in 1..Len(last.models) :
          last.report[last.models[i].key] # last.report[last.models[j].key]

\* C4: read_yaml on an existing file with empty content raises a ValueError and
\* returns no mapping.
C4_EmptyYamlRaises ==
    (last.op = "read_yaml" /\ WellTyped
        /\ fs[last.path].kind = "file" /\ fs[last.path].data = <<>>)
        => /\ last.exc = "ValueError"
           /\ last.ret = NoValue

C4_Witness ==
    /\ last.op = "read_yaml" /\ WellTyped
    /\ fs[last.path].kind = "file" /\ fs[last.path].data = <<>>
    /\ last.exc = "ValueError"

\* The file read_yaml was given has no content: nothing but comments and
\* blank lines.
EmptyFileCase ==
    /\ last.op = "read_yaml"
    /\ Kind(fs, last.path) = "file"
    /\ Uncomment(fs[last.path].data) = <<>>

\* C5: except for the empty-file case of read_yaml, every helper surfaces a
\* failure of its underlying operation as the same exception it received.
C5_FailuresPropagateUnchanged ==
    (last.cause # "" /\ ~EmptyFileCase) => last.exc = last.cause

Again == create_directories(fs, last.dirs)

\* C6: after create_directories(L) every path of L is a directory, with its
\* ancestors; the directories there were still are; and calling it again, or
\* with paths that exist already, or with an empty list, raises nothing and
\* leaves the directories as they are.
C6_CreateDirectoriesIdempotent ==
    /\ (last.op = "create_directories" /\ last.exc = "")
          => /\ \A i \in 1..Len(last.dirs) :
                   /\ last.dirs[i] \in Dirs(fs)
                   /\ Ancestors(last.dirs[i]) \subseteq Dirs(fs)
             /\ last.preDirs \subseteq Dirs(fs)
             /\ Again.exc = ""
             /\ Again.fs = fs
             /\ ((\A i \in 1..Len(last.dirs) : last.dirs[i] \in last.preDirs)
                    => Dirs(fs) = last.preDirs)
    /\ (last.op = "create_directories"
          /\ \A i \in 1..Len(last.dirs) : last.dirs[i] \in last.preDirs)
          => last.exc = ""

C6_Witness ==
    /\ last.op = "create_directories" /\ last.exc = ""
    /\ Len(last.dirs) = 2
    /\ last.dirs[1] = <<"d", "e">>
    /\ <<"d">> \notin last.preDirs
    /\ <<"d">> \in Dirs(fs)

Measured == Bytes(fs[last.path].data)

\* C7: for a file of n bytes get_size returns "~ k KB" where k is n / 1024
\* rounded to the nearest whole number (|k - n/1024| <= 1/2), and k never
\* decreases as n grows.
C7_RoundedKilobytes ==
    (last.op = "get_size" /\ last.exc = "")
        => \E k \in 0..(MaxKB + 2) :
              /\ last.ret = PyStr("~ " \o Str(k) \o " KB")
              /\ 2 * (1024 * k - Measured) <= 1024
              /\ 2 * (Measured - 1024 * k) <= 1024
              /\ \A m \in Sizes : (m <= Measured => size_in_kb(m) <= k)
              /\ \A m \in Sizes : (m >= Measured => size_in_kb(m) >= k)

C7_Witness ==
    /\ last.op = "get_size" /\ last.exc = ""
    /\ Measured = 1024 + 512
    /\ last.ret = PyStr("~ 2 KB")

RECURSIVE Picklable(_)
Picklable(v) ==
    /\ v.t # "function"
    /\ \A i \in 1..Len(v.items) : Picklable(v.items[i])

ParentMissing == Dirname(last.path) # <<>> /\ Dirname(last.path) \notin last.preDirs

\* C8 (as stated): save_bin and save_object create the missing parent
\* directories of the target, so a write to a path whose parent directory does
\* not exist yet succeeds and leaves the parent directory and the file.
C8_EveryBinaryWriteCreatesParents ==
    (last.op \in {"save_bin", "save_object"} /\ WellTyped /\ Picklable(last.arg)
        /\ ParentMissing)
        => /\ last.exc = ""
           /\ Dirname(last.path) \in Dirs(fs)
           /\ fs[last.path].kind = "file"

\* C8 (amended): save_object creates the missing parent directories of its
\* target before writing, so its write of a picklable object to a path whose
\* parent directory does not exist yet succeeds and leaves the parent directory
\* and the file; save_bin creates no directory.
C8_SaveObjectCreatesParents ==
    /\ (last.op = "save_object" /\ WellTyped /\ Picklable(last.arg) /\ ParentMissing)
          => /\ last.exc = ""
             /\ Dirname(last.path) \in Dirs(fs)
             /\ fs[last.path] = FileNode(Pickle(last.arg).toks)
    /\ last.op = "save_bin" => Dirs(fs) = last.preDirs

C8_Witness ==
    /\ last.op = "save_object" /\ WellTyped /\ ParentMissing
    /\ last.exc = ""
    /\ fs[last.path].kind = "file"
    /\ Dirname(last.path) \in Dirs(fs)

\* The first index of the registry whose key the parameter spaces lack, 0 if
\* there is none.
MissingAt(call) ==
    LET missing == {i \in 1..Len(call.models) : call.models[i].key \notin DOMAIN call.param}
    IN  IF missing = {} THEN 0
        ELSE CHOOSE i \in missing : \A j \in missing : i <= j

RECURSIVE Processed(_, _)
\* What the loop does to the first n models of the registry, in order.
Processed(models, n) ==
    IF n = 0 THEN <<>>
    ELSE Processed(models, n - 1)
         \o <<Event("search", models[n].key), Event("set_params", models[n].key),
              Event("fit", models[n].key), Event("score", models[n].key)>>

\* C9: evaluate_model does not check the keys first.  When a key of the registry
\* is absent from the parameter spaces, the call fails at that model's lookup,
\* after every model before it was searched, set, refit and scored, and before
\* anything is done to that model or a later one; it raises and returns no report.
C9_FailsAtLookup ==
    [][(/\ last'.op = "evaluate_model"
        /\ MissingAt(last') # 0
        /\ \A j \in 1..(MissingAt(last') - 1) : last'.models[j].key # last'.failing)
          => LET i == MissingAt(last')
                 ms == last'.models
             IN  /\ last'.exc = "KeyError"
                 /\ last'.report = EmptyReport
                 /\ last'.trace = Processed(ms, i - 1)
                 /\ \A j \in 1..(i - 1) :
                       estimators'[ms[j].est] =
                           [params |-> last'.best[ms[j].key], fitted |-> last'.best[ms[j].key]]
                 /\ \A j \in i..Len(ms) : estimators'[ms[j].est] = estimators[ms[j].est]
      ]_vars

C9_Witness ==
    /\ last.op = "evaluate_model" /\ last.exc = "KeyError"
    /\ MissingAt(last) = 2
    /\ Len(last.models) = 2
    /\ last.trace = Processed(last.models, 1)
    /\ estimators[last.models[1].est].fitted # 0
    /\ estimators[last.models[2].est].fitted = 0

Logged(level) == \E i \in 1..Len(last.logs) : last.logs[i].level = level

\* C10 (as stated): save_json, load_json, save_bin, load_bin and save_object
\* each emit a log message whenever they complete successfully, and a caught
\* error is logged before it is raised again.
C10_EveryHelperLogs ==
    (last.op \in {"save_json", "load_json", "save_bin", "load_bin", "save_object"}
        /\ WellTyped)
        => /\ last.exc = "" => Logged("info")
           /\ (last.op \in {"save_bin", "save_object"} /\ last.cause # "")
                 => Logged("error")

\* C10 (amended): save_json and load_json emit a log message whenever they
\* complete successfully; load_bin emits one whenever its load has succeeded;
\* the body of save_bin emits one on success and logs the error it caught
\* before raising it again; save_object emits no log message at all.
C10_HelpersLogExceptSaveObject ==
    /\ (last.op \in {"save_json", "load_json"} /\ last.exc = "")
          => last.logs = <<Info(IF last.op = "save_json" THEN "json saved"
                                ELSE "json loaded")>>
    /\ (last.op = "load_bin" /\ WellTyped /\ last.cause = "")
          => last.logs = <<Info("binary loaded")>>
    /\ \A p \in BinPaths, x \in Objects :
          LET body == save_bin_body(fs, p, x)
          IN  /\ body.exc = "" => body.logs = <<Info("binary saved")>>
              /\ body.exc # "" => (body.logs = <<Error("binary save failed")>>
                                   /\ body.exc = body.cause)
    /\ last.op = "save_object" => last.logs = <<>>

C10_Witness ==
    /\ last.op = "save_object" /\ WellTyped
    /\ last.exc = ""
    /\ fs[last.path].kind = "file"
    /\ last.logs = <<>>

====
